---- MODULE Spec2Model ----
(***************************************************************************)
(* SensorMonitorService (backend/core/sensor_monitor.py) with its          *)
(* ADCHandler (backend/core/adc_handler.py): the polling thread, the       *)
(* start()/stop() lifecycle, the lock-protected reading cache and the      *)
(* query operations.                                                       *)
(*                                                                         *)
(* Time is counted in tenths of a second (the shortest refresh interval).  *)
(* Sensor values are fixed-point numbers, Scale units to one.              *)
(***************************************************************************)
EXTENDS Integers, FiniteSets, Sequences

(* ------------------------------ bounds --------------------------------- *)

\* The clock runs from StartTime to StartTime + Horizon.
Horizon == 1

\* The longer run of the clock that lets a reading outlive its MAX_AGE.
StaleHorizon == 6

\* Thread objects that start() may create in one run.
MaxThreads == 2

\* The run of the clock that lets the battery come due a second time.
LongHorizon == 11

\* The run of the clock that outlasts the largest MAX_AGE.
FullHorizon == 101

\* Raw voltages the ADC channels may report, in volts.
Voltages == {1, 2}

\* The channels of an installation at rest: every read reports the same.
SteadyVoltages == {1}

(* --------------------------- configuration ----------------------------- *)

\* The four "if self._should_update(...)" blocks of _polling_loop, in order.
Order == <<"rpm", "battery", "fuel_level", "temperature">>

\* Refresh intervals, in tenths of a second.
REFRESH_RATES == [rpm |-> 1, battery |-> 10, fuel_level |-> 20, temperature |-> 20]

\* A policy in which the rpm reading ages out before it can be refreshed.
MAX_AGE_BelowInterval == [rpm |-> 0, battery |-> 50, fuel_level |-> 100, temperature |-> 100]

\* Maximum age before a cached value is stale, in tenths of a second.
MAX_AGE == [rpm |-> 5, battery |-> 50, fuel_level |-> 100, temperature |-> 100]

available_sensors == DOMAIN REFRESH_RATES

\* ADCHandler.CHANNELS: the channel names __init__ creates an AnalogIn for.
CHANNELS == {"fuel_level", "rpm", "battery", "temperature"}

\* Fixed-point unit of the sensor values.
Scale == 100000

\* 100.0 / MAX_VOLTAGE_FUEL_LEVEL: 100 / 2.77, applied as raw * 10000 / 277.
FUEL_LEVEL_NUM == 10000

FUEL_LEVEL_DEN == 277

\* 2.44275, in units of 1 / Scale.
BATTERY_VOLTAGE_DIVIDER == 244275

TEMPERATURE_FACTOR == 100

RPM_FACTOR == 1000

(* ------------------------------ helpers -------------------------------- *)

None == -1

NoThread == 0

NoObj == 0

Threads == 1..MaxThreads

\* Threads of the embedding program that call start() and stop().
Callers == {"c1", "c2"}

\* Threads of the embedding program that query the service.
Clients == {"q1", "q2"}

\* Identifiers a query may name: the registered sensors and one that is not.
QueryIds == {"rpm", "battery", "fuel_level", "temperature", "unknown"}

Min(S) == CHOOSE x \in S : \A y \in S : x <= y

Max(S) == CHOOSE x \in S : \A y \in S : x >= y

\* min(self.REFRESH_RATES.values())
MinRate == Min({REFRESH_RATES[s] : s \in DOMAIN REFRESH_RATES})

\* time.time() at construction: seconds since the epoch, far more than any
\* refresh interval, so that every sensor is due on the first pass.
StartTime == Max({REFRESH_RATES[s] : s \in DOMAIN REFRESH_RATES})

MaxTime == StartTime + Horizon

MaxTimeStale == StartTime + StaleHorizon

MaxTimeLong == StartTime + LongHorizon

MaxTimeFull == StartTime + FullHorizon

(* ---------------------------- ADCHandler ------------------------------- *)

\* self.channels after __init__: one AnalogIn per name of CHANNELS.
channels == CHANNELS

\* read_raw: None for a channel that was never set up, else the voltage.
read_raw(channel_name, volt) ==
    IF channel_name \notin channels THEN None ELSE volt

read_fuel_level(volt) ==
    LET raw_value == read_raw("fuel_level", volt)
    IN  IF raw_value = None THEN 0
        ELSE LET percentage == (raw_value * Scale * FUEL_LEVEL_NUM) \div FUEL_LEVEL_DEN
             IN  Min({Max({percentage, 0}), 100 * Scale})

read_rpm(volt) ==
    LET raw_value == read_raw("rpm", volt)
    IN  IF raw_value = None THEN 0 ELSE raw_value * RPM_FACTOR * Scale

read_battery_voltage(volt) ==
    LET raw_value == read_raw("battery", volt)
    IN  IF raw_value = None THEN 0 ELSE raw_value * BATTERY_VOLTAGE_DIVIDER

read_temperature(volt) ==
    LET raw_value == read_raw("temperature", volt)
    IN  IF raw_value = None THEN 0 ELSE raw_value * TEMPERATURE_FACTOR * Scale

\* The read the polling loop issues for each sensor.
adc_read(sensor, volt) ==
    CASE sensor = "rpm"         -> read_rpm(volt)
      [] sensor = "battery"     -> read_battery_voltage(volt)
      [] sensor = "fuel_level"  -> read_fuel_level(volt)
      [] sensor = "temperature" -> read_temperature(volt)

(* ------------------------------- state --------------------------------- *)

VARIABLES
    now,              \* time.time()
    _running,         \* self._running
    _polling_thread,  \* self._polling_thread: a Thread, or NoThread for None
    _readings,        \* self._readings: sensor -> SensorReading object
    _lock,            \* self._lock is locked
    last_read,        \* self.last_read: defaultdict(float)
    heap,             \* the SensorReading objects
    thr,              \* the Thread objects and where each polling loop stands
    callers,          \* where each start()/stop() caller stands
    clients,          \* where each query caller stands, and what it was handed
    quiet,            \* a stop() has returned and no start() was called since
    puts              \* per sensor, the (value, timestamp) of its latest put

vars == <<now, _running, _polling_thread, _readings, _lock, last_read, heap,
          thr, callers, clients, quiet, puts>>

\* One SensorReading object can be alive per sensor in the cache and per
\* sensor in each result a client still holds.
ObjIds == 1..(Cardinality(available_sensors) * (1 + Cardinality(Clients)))

FreeObj == [live |-> FALSE, value |-> 0, timestamp |-> 0, stale |-> FALSE]

\* SensorReading(value=value, timestamp=timestamp): stale defaults to False.
SensorReading(value, timestamp) ==
    [live |-> TRUE, value |-> value, timestamp |-> timestamp, stale |-> FALSE]

NoRefs == [s \in available_sensors |-> NoObj]

UnbornThread ==
    [st |-> "unborn", pc |-> "-", i |-> 0, ct |-> 0, val |-> 0, wake |-> 0, exit |-> "-"]

IdleCaller == [pc |-> "idle", tgt |-> NoThread, clean |-> FALSE]

IdleClient ==
    [pc |-> "idle", arg |-> "-", i |-> 0, ct |-> 0, acc |-> NoRefs,
     ret |-> "-", res |-> NoRefs]

\* A cache that starts with a zero reading for every sensor, as the values
\* of a defaultdict(float) would.
InitZeroReadings ==
    /\ now = StartTime
    /\ _running = FALSE
    /\ _polling_thread = NoThread
    /\ _readings = [s \in available_sensors |->
                      CHOOSE o \in 1..Len(Order) : Order[o] = s]
    /\ _lock = FALSE
    /\ last_read = [s \in available_sensors |-> 0]
    /\ heap = [o \in ObjIds |->
                 IF o <= Len(Order) THEN SensorReading(0, 0) ELSE FreeObj]
    /\ thr = [t \in Threads |-> UnbornThread]
    /\ callers = [c \in Callers |-> IdleCaller]
    /\ clients = [q \in Clients |-> IdleClient]
    /\ quiet = FALSE
    /\ puts = [s \in available_sensors |-> <<>>]

\* SensorMonitorService.__init__
Init ==
    /\ now = StartTime
    /\ _running = FALSE
    /\ _polling_thread = NoThread
    /\ _readings = <<>>
    /\ _lock = FALSE
    /\ last_read = [s \in available_sensors |-> 0]
    /\ heap = [o \in ObjIds |-> FreeObj]
    /\ thr = [t \in Threads |-> UnbornThread]
    /\ callers = [c \in Callers |-> IdleCaller]
    /\ clients = [q \in Clients |-> IdleClient]
    /\ quiet = FALSE
    /\ puts = [s \in available_sensors |-> <<>>]

\* dict.get(key): None for a missing key.
Get(d, key) == IF key \in DOMAIN d THEN d[key] ELSE NoObj

\* The objects something still refers to: the cache and the clients' results.
Referenced(store, cl) ==
    {store[k] : k \in DOMAIN store}
        \cup {cl[q].res[s] : q \in Clients, s \in available_sensors}
        \cup {cl[q].acc[s] : q \in Clients, s \in available_sensors}

\* Reference counting: an object nothing refers to is freed.
Collect(h, store, cl) ==
    [o \in ObjIds |-> IF o \in Referenced(store, cl) THEN h[o] ELSE FreeObj]

NewObj == Min({o \in ObjIds : ~heap[o].live})

\* The clock advances.
Tick(limit) ==
    /\ now < limit
    /\ now' = now + 1
    /\ UNCHANGED <<_running, _polling_thread, _readings, _lock, last_read, heap,
                   thr, callers, clients, quiet, puts, puts>>

\* Every polling loop that runs is inside time.sleep, where it spends all but
\* a sliver of each tenth of a second.
AllAsleep == \A t \in Threads : thr[t].st = "alive" => thr[t].pc = "asleep"

\* The clock advances while the loops sleep: a pass of the loop is over
\* within the tenth of a second in which it began.
TickAsleep(limit) ==
    /\ AllAsleep
    /\ Tick(limit)

\* Time passes while the loops sleep.  Past the limit it passes only as far
\* as a loop that stop() has told to end needs to return from its sleep.
Elapse(limit) ==
    /\ AllAsleep
    /\ \/ now < limit
       \/ /\ ~_running
          /\ \E t \in Threads : thr[t].st = "alive" /\ thr[t].wake > now
    /\ now' = now + 1
    /\ UNCHANGED <<_running, _polling_thread, _readings, _lock, last_read, heap,
                   thr, callers, clients, quiet, puts>>

\* Time as it passes for a service that runs without delays: a loop is
\* alive, time.sleep returns on time (the clock does not go past the moment
\* a sleeping loop is to wake), and a query is over within the tenth of a
\* second in which it was made.
TickPrompt(limit) ==
    /\ \E t \in Threads : thr[t].st = "alive"
    /\ \A t \in Threads : thr[t].st = "alive" => thr[t].wake > now
    /\ \A q \in Clients : clients[q].pc = "idle"
    /\ TickAsleep(limit)

(* --------------------------- the polling loop -------------------------- *)

\* A loop that goes from one pass to the next without sleeping.
AdvanceNoSleep(t) ==
    IF thr[t].i < Len(Order)
    THEN [thr[t] EXCEPT !.pc = "should", !.i = @ + 1, !.ct = 0, !.val = 0]
    ELSE [thr[t] EXCEPT !.pc = "asleep", !.i = 0, !.ct = 0, !.val = 0,
                        !.wake = now]

\* After one sensor's block: the next block, or time.sleep(min(...)).
Advance(t) ==
    IF thr[t].i < Len(Order)
    THEN [thr[t] EXCEPT !.pc = "should", !.i = @ + 1, !.ct = 0, !.val = 0]
    ELSE [thr[t] EXCEPT !.pc = "asleep", !.i = 0, !.ct = 0, !.val = 0,
                        !.wake = now + MinRate]

\* while self._running:
LoopWhile(t) ==
    /\ thr[t].st = "alive" /\ thr[t].pc = "while"
    /\ thr' = [thr EXCEPT ![t] =
                 IF _running
                 THEN [@ EXCEPT !.pc = "should", !.i = 1]
                 ELSE [@ EXCEPT !.st = "dead", !.pc = "-", !.exit = "returned"]]
    /\ UNCHANGED <<now, _running, _polling_thread, _readings, _lock, last_read,
                   heap, callers, clients, quiet, puts>>

\* _should_update, the test: current_time = time.time(); is the sensor due?
ShouldUpdate(t) ==
    /\ thr[t].st = "alive" /\ thr[t].pc = "should"
    /\ LET sensor == Order[thr[t].i]
           current_time == now
       IN  thr' = [thr EXCEPT ![t] =
                     IF current_time - last_read[sensor] >= REFRESH_RATES[sensor]
                     THEN [@ EXCEPT !.pc = "mark", !.ct = current_time]
                     ELSE Advance(t)]
    /\ UNCHANGED <<now, _running, _polling_thread, _readings, _lock, last_read,
                   heap, callers, clients, quiet, puts>>

\* A due branch that goes on to the read without recording the attempt.
MarkReadSkipped(t) ==
    /\ thr[t].st = "alive" /\ thr[t].pc = "mark"
    /\ thr' = [thr EXCEPT ![t] = [@ EXCEPT !.pc = "read", !.ct = 0]]
    /\ UNCHANGED <<now, _running, _polling_thread, _readings, _lock, last_read,
                   heap, callers, clients, quiet, puts>>

\* A due branch that takes the store lock before the read is issued.
MarkReadTakesLock(t) ==
    /\ thr[t].st = "alive" /\ thr[t].pc = "mark"
    /\ ~_lock
    /\ _lock' = TRUE
    /\ last_read' = [last_read EXCEPT ![Order[thr[t].i]] = thr[t].ct]
    /\ thr' = [thr EXCEPT ![t] = [@ EXCEPT !.pc = "read", !.ct = 0]]
    /\ UNCHANGED <<now, _running, _polling_thread, _readings, heap, callers,
                   clients, quiet, puts>>

\* _should_update, the due branch: self.last_read[sensor] = current_time
MarkRead(t) ==
    /\ thr[t].st = "alive" /\ thr[t].pc = "mark"
    /\ last_read' = [last_read EXCEPT ![Order[thr[t].i]] = thr[t].ct]
    /\ thr' = [thr EXCEPT ![t] = [@ EXCEPT !.pc = "read", !.ct = 0]]
    /\ UNCHANGED <<now, _running, _polling_thread, _readings, _lock, heap,
                   callers, clients, quiet, puts>>

\* self.adc.read_xxx() returns the converted channel voltage.
AdcReadValue(t, volts) ==
    /\ thr[t].st = "alive" /\ thr[t].pc = "read"
    /\ \E volt \in volts :
         thr' = [thr EXCEPT ![t] =
                   [@ EXCEPT !.pc = "lock", !.val = adc_read(Order[thr[t].i], volt)]]
    /\ UNCHANGED <<now, _running, _polling_thread, _readings, _lock, last_read,
                   heap, callers, clients, quiet, puts>>

\* A failed read answered with the default 0.0, which the loop then stores.
AdcReadSubstitutesDefault(t) ==
    /\ thr[t].st = "alive" /\ thr[t].pc = "read"
    /\ thr' = [thr EXCEPT ![t] = [@ EXCEPT !.pc = "lock", !.val = 0]]
    /\ UNCHANGED <<now, _running, _polling_thread, _readings, _lock, last_read,
                   heap, callers, clients, quiet, puts>>

\* self.adc.read_xxx() raises (the bus read of AnalogIn.voltage fails): nothing
\* in _polling_loop catches it, and the thread ends.
AdcReadRaises(t) ==
    /\ thr[t].st = "alive" /\ thr[t].pc = "read"
    /\ thr' = [thr EXCEPT ![t] =
                 [UnbornThread EXCEPT !.st = "dead", !.exit = "raised"]]
    /\ UNCHANGED <<now, _running, _polling_thread, _readings, _lock, last_read,
                   heap, callers, clients, quiet, puts>>

\* _update_reading: with self._lock (acquire)
UpdateAcquire(t) ==
    /\ thr[t].st = "alive" /\ thr[t].pc = "lock"
    /\ ~_lock
    /\ _lock' = TRUE
    /\ thr' = [thr EXCEPT ![t] = [@ EXCEPT !.pc = "write"]]
    /\ UNCHANGED <<now, _running, _polling_thread, _readings, last_read, heap,
                   callers, clients, quiet, puts>>

\* The cache after self._readings[sensor] = reading
Put(store, sensor, obj) ==
    [k \in DOMAIN store \cup {sensor} |-> IF k = sensor THEN obj ELSE store[k]]

\* A put that overwrites the value of the cached object and leaves its
\* timestamp to a later statement.
UpdateWriteInPlace(t) ==
    /\ thr[t].st = "alive" /\ thr[t].pc = "write"
    /\ LET sensor == Order[thr[t].i]
           old == Get(_readings, sensor)
           obj == IF old = NoObj THEN NewObj ELSE old
           store == Put(_readings, sensor, obj)
       IN  /\ _readings' = store
           /\ heap' = Collect([heap EXCEPT ![obj] =
                                 IF old = NoObj THEN SensorReading(thr[t].val, now)
                                 ELSE [@ EXCEPT !.value = thr[t].val]],
                              store, clients)
           /\ puts' = [puts EXCEPT ![sensor] = <<thr[t].val, now>>]
    /\ _lock' = FALSE
    /\ thr' = [thr EXCEPT ![t] = Advance(t)]
    /\ UNCHANGED <<now, _running, _polling_thread, last_read, callers, clients, quiet>>

\* A put that leaves the with block without releasing the lock.
UpdateWriteKeepsLock(t) ==
    /\ thr[t].st = "alive" /\ thr[t].pc = "write"
    /\ LET sensor == Order[thr[t].i]
           obj == NewObj
           store == Put(_readings, sensor, obj)
       IN  /\ _readings' = store
           /\ heap' = Collect([heap EXCEPT ![obj] = SensorReading(thr[t].val, now)],
                              store, clients)
           /\ puts' = [puts EXCEPT ![sensor] = <<thr[t].val, now>>]
    /\ thr' = [thr EXCEPT ![t] = Advance(t)]
    /\ UNCHANGED <<now, _running, _polling_thread, _lock, last_read, callers,
                   clients, quiet>>

\* A put stamped by a clock of the polling thread's own, which stands
\* further back the later the thread was created.
UpdateWritePerThreadClock(t) ==
    /\ thr[t].st = "alive" /\ thr[t].pc = "write"
    /\ LET sensor == Order[thr[t].i]
           obj == NewObj
           store == Put(_readings, sensor, obj)
       IN  /\ _readings' = store
           /\ heap' = Collect([heap EXCEPT ![obj] = SensorReading(thr[t].val, now - 2 * t)],
                              store, clients)
           /\ puts' = [puts EXCEPT ![sensor] = <<thr[t].val, now - 2 * t>>]
    /\ _lock' = FALSE
    /\ thr' = [thr EXCEPT ![t] = Advance(t)]
    /\ UNCHANGED <<now, _running, _polling_thread, last_read, callers, clients, quiet>>

\* _update_reading: self._readings[sensor] = SensorReading(value, time.time()),
\* and the lock is released on leaving the with block.
UpdateWrite(t) ==
    /\ thr[t].st = "alive" /\ thr[t].pc = "write"
    /\ LET sensor == Order[thr[t].i]
           obj == NewObj
           store == Put(_readings, sensor, obj)
       IN  /\ _readings' = store
           /\ heap' = Collect([heap EXCEPT ![obj] = SensorReading(thr[t].val, now)],
                              store, clients)
           /\ puts' = [puts EXCEPT ![sensor] = <<thr[t].val, now>>]
    /\ _lock' = FALSE
    /\ thr' = [thr EXCEPT ![t] = Advance(t)]
    /\ UNCHANGED <<now, _running, _polling_thread, last_read, callers, clients, quiet>>

\* time.sleep returns once the interval has passed.
Wake(t) ==
    /\ thr[t].st = "alive" /\ thr[t].pc = "asleep"
    /\ now >= thr[t].wake
    /\ thr' = [thr EXCEPT ![t] = [@ EXCEPT !.pc = "while", !.wake = 0]]
    /\ UNCHANGED <<now, _running, _polling_thread, _readings, _lock, last_read,
                   heap, callers, clients, quiet, puts>>

_polling_loop(t, volts) ==
    \/ LoopWhile(t)
    \/ ShouldUpdate(t)
    \/ MarkRead(t)
    \/ AdcReadValue(t, volts)
    \/ AdcReadRaises(t)
    \/ UpdateAcquire(t)
    \/ UpdateWrite(t)
    \/ Wake(t)

(* ------------------------- start() and stop() -------------------------- *)

\* A start() call is under way.
Starting(c) ==
    callers[c].pc \in {"start_set", "start_create", "start_launch", "start_return"}

\* A start() is called: no stop() under way is a stop() with no start() in
\* its course any more.
Called(c, next) ==
    [d \in Callers |-> IF d = c THEN next ELSE [callers[d] EXCEPT !.clean = FALSE]]

\* Thread objects already created, or about to be by a start() under way.
ThreadsSpoken ==
    Cardinality({t \in Threads : thr[t].st # "unborn"})
        + Cardinality({c \in Callers : callers[c].pc \in {"start_set", "start_create"}})

\* start() without its test of the flag: every call goes on to launch a loop.
StartCheckNoTest(c) ==
    /\ callers[c].pc = "idle"
    /\ ThreadsSpoken < MaxThreads
    /\ callers' = Called(c, [callers[c] EXCEPT !.pc = "start_set"])
    /\ quiet' = FALSE
    /\ UNCHANGED <<now, _running, _polling_thread, _readings, _lock, last_read,
                   heap, thr, clients, puts>>

\* start(): if not self._running
StartCheck(c) ==
    /\ callers[c].pc = "idle"
    /\ _running \/ ThreadsSpoken < MaxThreads
    /\ callers' = Called(c, IF _running
                                THEN [callers[c] EXCEPT !.pc = "start_return"]
                                ELSE [callers[c] EXCEPT !.pc = "start_set"])
    /\ quiet' = FALSE
    /\ UNCHANGED <<now, _running, _polling_thread, _readings, _lock, last_read,
                   heap, thr, clients, puts>>

\* start(): self._running = True
StartSet(c) ==
    /\ callers[c].pc = "start_set"
    /\ _running' = TRUE
    /\ callers' = [callers EXCEPT ![c] = [@ EXCEPT !.pc = "start_create"]]
    /\ UNCHANGED <<now, _polling_thread, _readings, _lock, last_read, heap, thr,
                   clients, quiet, puts>>

\* start(): self._polling_thread = threading.Thread(target=self._polling_loop)
StartCreate(c) ==
    /\ callers[c].pc = "start_create"
    /\ LET t == Min({u \in Threads : thr[u].st = "unborn"})
       IN  /\ thr' = [thr EXCEPT ![t] = [@ EXCEPT !.st = "created"]]
           /\ _polling_thread' = t
    /\ callers' = [callers EXCEPT ![c] = [@ EXCEPT !.pc = "start_launch"]]
    /\ UNCHANGED <<now, _running, _readings, _lock, last_read, heap, clients, quiet, puts>>

\* start(): self._polling_thread.start().  Thread.start() raises RuntimeError
\* for a thread that was started before.
StartLaunch(c) ==
    /\ callers[c].pc = "start_launch"
    /\ LET t == _polling_thread
       IN  IF thr[t].st = "created"
           THEN /\ thr' = [thr EXCEPT ![t] = [@ EXCEPT !.st = "alive", !.pc = "while"]]
                /\ callers' = [callers EXCEPT ![c] = IdleCaller]
           ELSE /\ thr' = thr
                /\ callers' = [callers EXCEPT ![c] = IdleCaller]
    /\ UNCHANGED <<now, _running, _polling_thread, _readings, _lock, last_read,
                   heap, clients, quiet, puts>>

\* start(): the flag was set already, and the call returns.
StartReturn(c) ==
    /\ callers[c].pc = "start_return"
    /\ callers' = [callers EXCEPT ![c] = IdleCaller]
    /\ UNCHANGED <<now, _running, _polling_thread, _readings, _lock, last_read,
                   heap, thr, clients, quiet, puts>>

start(c) ==
    \/ StartCheck(c)
    \/ StartReturn(c)
    \/ StartSet(c)
    \/ StartCreate(c)
    \/ StartLaunch(c)

\* A stop() that also empties the cache.
StopClearEmptiesStore(c) ==
    /\ callers[c].pc = "idle"
    /\ _running' = FALSE
    /\ _readings' = <<>>
    /\ heap' = Collect(heap, <<>>, clients)
    /\ puts' = [s \in available_sensors |-> <<>>]
    /\ callers' = [callers EXCEPT ![c] =
                     [@ EXCEPT !.pc = "stop_test",
                               !.clean = \A d \in Callers : ~Starting(d)]]
    /\ UNCHANGED <<now, _polling_thread, _lock, last_read, thr, clients, quiet>>

\* A stop() that also forgets when each sensor was last attempted.
StopClearForgets(c) ==
    /\ callers[c].pc = "idle"
    /\ _running' = FALSE
    /\ last_read' = [s \in available_sensors |-> 0]
    /\ callers' = [callers EXCEPT ![c] =
                     [@ EXCEPT !.pc = "stop_test",
                               !.clean = \A d \in Callers : ~Starting(d)]]
    /\ UNCHANGED <<now, _polling_thread, _readings, _lock, heap, thr, clients,
                   quiet, puts>>

\* stop(): self._running = False
StopClear(c) ==
    /\ callers[c].pc = "idle"
    /\ _running' = FALSE
    /\ callers' = [callers EXCEPT ![c] =
                     [@ EXCEPT !.pc = "stop_test",
                               !.clean = \A d \in Callers : ~Starting(d)]]
    /\ UNCHANGED <<now, _polling_thread, _readings, _lock, last_read, heap, thr,
                   clients, quiet, puts>>

\* This stop() call returns, and no start() was called in its course.
StopReturns(c) == callers[c].clean

\* stop(): if self._polling_thread
StopTest(c) ==
    /\ callers[c].pc = "stop_test"
    /\ IF _polling_thread = NoThread
       THEN /\ callers' = [callers EXCEPT ![c] = IdleCaller]
            /\ quiet' = StopReturns(c)
       ELSE /\ callers' = [callers EXCEPT ![c] = [@ EXCEPT !.pc = "stop_join"]]
            /\ quiet' = quiet
    /\ UNCHANGED <<now, _running, _polling_thread, _readings, _lock, last_read,
                   heap, thr, clients, puts>>

\* stop(): self._polling_thread.join() is called.  Thread.join() raises
\* RuntimeError for a thread that was not started yet.
StopJoin(c) ==
    /\ callers[c].pc = "stop_join"
    /\ LET t == _polling_thread
       IN  callers' = [callers EXCEPT ![c] =
                         IF thr[t].st = "created"
                         THEN IdleCaller
                         ELSE [@ EXCEPT !.pc = "stop_wait", !.tgt = t]]
    /\ UNCHANGED <<now, _running, _polling_thread, _readings, _lock, last_read,
                   heap, thr, clients, quiet, puts>>

\* stop(): join() returns once the joined thread has ended.
StopWait(c) ==
    /\ callers[c].pc = "stop_wait"
    /\ thr[callers[c].tgt].st = "dead"
    /\ callers' = [callers EXCEPT ![c] = IdleCaller]
    /\ quiet' = StopReturns(c)
    /\ UNCHANGED <<now, _running, _polling_thread, _readings, _lock, last_read,
                   heap, thr, clients, puts>>

stop(c) ==
    \/ StopClear(c)
    \/ StopTest(c)
    \/ StopJoin(c)
    \/ StopWait(c)

(* ------------------------------ queries -------------------------------- *)

\* for sensor in self.REFRESH_RATES.keys(): the dict's insertion order.
Keys == <<"rpm", "battery", "fuel_level", "temperature">>

\* The staleness test with >= for >.
MarkStaleInclusive(h, obj, sensor, current_time) ==
    [h EXCEPT ![obj].stale = (current_time - h[obj].timestamp >= MAX_AGE[sensor])]

\* reading.stale = age > self.MAX_AGE[sensor], written into the object.
MarkStale(h, obj, sensor, current_time) ==
    [h EXCEPT ![obj].stale = (current_time - h[obj].timestamp > MAX_AGE[sensor])]

\* get_reading: with self._lock (acquire)
GetReadingAcquire(q, sensor) ==
    /\ clients[q].pc = "idle"
    /\ ~_lock
    /\ _lock' = TRUE
    /\ clients' = [clients EXCEPT ![q] = [IdleClient EXCEPT !.pc = "gr", !.arg = sensor]]
    /\ UNCHANGED <<now, _running, _polling_thread, _readings, last_read, heap,
                   thr, callers, quiet, puts>>

\* get_reading, the body of the with block: None for a missing key, else the
\* cached object itself with its stale field set; leaving releases the lock.
GetReadingBody(q) ==
    /\ clients[q].pc = "gr"
    /\ LET sensor == clients[q].arg
           reading == Get(_readings, sensor)
       IN  IF reading = NoObj
           THEN /\ clients' = [clients EXCEPT ![q] =
                                 [@ EXCEPT !.pc = "done", !.ct = now, !.ret = "None"]]
                /\ heap' = heap
           ELSE /\ clients' = [clients EXCEPT ![q] =
                                 [@ EXCEPT !.pc = "done", !.ct = now, !.ret = "Reading",
                                           !.res = [NoRefs EXCEPT ![sensor] = reading]]]
                /\ heap' = MarkStale(heap, reading, sensor, now)
    /\ _lock' = FALSE
    /\ UNCHANGED <<now, _running, _polling_thread, _readings, last_read, thr,
                   callers, quiet, puts>>

\* get_all_readings: with self._lock (acquire); current_time = time.time()
GetAllAcquire(q) ==
    /\ clients[q].pc = "idle"
    /\ ~_lock
    /\ _lock' = TRUE
    /\ clients' = [clients EXCEPT ![q] = [IdleClient EXCEPT !.pc = "ga", !.i = 1, !.ct = now]]
    /\ UNCHANGED <<now, _running, _polling_thread, _readings, last_read, heap,
                   thr, callers, quiet, puts>>

\* A pass of the for loop that reads the clock anew for each entry.
GetAllStepClockPerEntry(q) ==
    /\ clients[q].pc = "ga"
    /\ clients[q].i <= Len(Keys)
    /\ LET sensor == Keys[clients[q].i]
           reading == Get(_readings, sensor)
       IN  IF reading = NoObj
           THEN /\ clients' = [clients EXCEPT ![q] = [@ EXCEPT !.i = @ + 1]]
                /\ heap' = heap
           ELSE /\ clients' = [clients EXCEPT ![q] =
                                 [@ EXCEPT !.i = @ + 1, !.acc[sensor] = reading]]
                /\ heap' = MarkStale(heap, reading, sensor, now)
    /\ UNCHANGED <<now, _running, _polling_thread, _readings, _lock, last_read,
                   thr, callers, quiet, puts>>

\* get_all_readings, one pass of the for loop.
GetAllStep(q) ==
    /\ clients[q].pc = "ga"
    /\ clients[q].i <= Len(Keys)
    /\ LET sensor == Keys[clients[q].i]
           reading == Get(_readings, sensor)
       IN  IF reading = NoObj
           THEN /\ clients' = [clients EXCEPT ![q] = [@ EXCEPT !.i = @ + 1]]
                /\ heap' = heap
           ELSE /\ clients' = [clients EXCEPT ![q] =
                                 [@ EXCEPT !.i = @ + 1, !.acc[sensor] = reading]]
                /\ heap' = MarkStale(heap, reading, sensor, clients[q].ct)
    /\ UNCHANGED <<now, _running, _polling_thread, _readings, _lock, last_read,
                   thr, callers, quiet, puts>>

\* get_all_readings: return readings; leaving the with block releases the lock.
GetAllReturn(q) ==
    /\ clients[q].pc = "ga"
    /\ clients[q].i > Len(Keys)
    /\ clients' = [clients EXCEPT ![q] =
                     [@ EXCEPT !.pc = "done", !.i = 0, !.ret = "Dict",
                               !.res = clients[q].acc, !.acc = NoRefs]]
    /\ _lock' = FALSE
    /\ UNCHANGED <<now, _running, _polling_thread, _readings, last_read, heap,
                   thr, callers, quiet, puts>>

\* The caller is done with what it was handed and drops its references.
Release(q) ==
    /\ clients[q].pc = "done"
    /\ clients' = [clients EXCEPT ![q] = IdleClient]
    /\ heap' = Collect(heap, _readings, clients')
    /\ UNCHANGED <<now, _running, _polling_thread, _readings, _lock, last_read,
                   thr, callers, quiet, puts>>

get_reading(q) ==
    \/ \E sensor \in QueryIds : GetReadingAcquire(q, sensor)
    \/ GetReadingBody(q)

get_all_readings(q) ==
    \/ GetAllAcquire(q)
    \/ GetAllStep(q)
    \/ GetAllReturn(q)

(* --------------------------- specifications ---------------------------- *)

\* The server: start() at startup, then queries while the loop polls.
Next ==
    \/ Tick(MaxTime)
    \/ \E t \in Threads : _polling_loop(t, Voltages)
    \/ start("c1")
    \/ get_reading("q1") \/ get_all_readings("q1") \/ Release("q1")

Spec == Init /\ [][Next]_vars

\* The same over the longer run of the clock, with get_reading queries.
NextStale ==
    \/ TickAsleep(MaxTimeStale)
    \/ \E t \in Threads : _polling_loop(t, SteadyVoltages)
    \/ start("c1")
    \/ get_reading("q1") \/ Release("q1")

SpecStale == Init /\ [][NextStale]_vars

\* start() and stop() called from any thread, next to the polling loops.
NextLifecycle ==
    \/ TickAsleep(MaxTime)
    \/ \E t \in Threads : _polling_loop(t, SteadyVoltages)
    \/ \E c \in Callers : start(c) \/ stop(c)

SpecLifecycle == Init /\ [][NextLifecycle]_vars

\* Two clients asking for the rpm reading over the longer run of the clock.
NextClients ==
    \/ TickAsleep(MaxTimeStale)
    \/ \E t \in Threads : _polling_loop(t, SteadyVoltages)
    \/ start("c1")
    \/ \E q \in Clients : GetReadingAcquire(q, "rpm") \/ GetReadingBody(q) \/ Release(q)

SpecClients == Init /\ [][NextClients]_vars

\* The server over the longer run of the clock, with get_all_readings queries.
NextSnapshot ==
    \/ TickAsleep(MaxTimeStale)
    \/ \E t \in Threads : _polling_loop(t, SteadyVoltages)
    \/ start("c1")
    \/ get_all_readings("q1") \/ Release("q1")

SpecSnapshot == Init /\ [][NextSnapshot]_vars

\* The server from startup to shutdown and, restarted, once more: one thread
\* calls start() and stop() in turn while get_sensor and get_all_sensors
\* requests come in.
NextService ==
    \/ Elapse(MaxTime)
    \/ \E t \in Threads : _polling_loop(t, SteadyVoltages)
    \/ start("c1") \/ stop("c1")
    \/ GetReadingAcquire("q1", "rpm") \/ GetReadingBody("q1") \/ Release("q1")
    \/ get_all_readings("q2") \/ Release("q2")

\* Time passes; a thread that can run does, and one that waits for a lock
\* that is free again and again gets it; a call under way goes on.
FairService ==
    /\ WF_vars(Elapse(MaxTime))
    /\ \A t \in Threads : SF_vars(_polling_loop(t, SteadyVoltages))
    /\ WF_vars(StopTest("c1") \/ StopJoin("c1") \/ StopWait("c1"))
    /\ WF_vars(GetReadingBody("q1"))
    /\ WF_vars(GetAllStep("q2") \/ GetAllReturn("q2"))

SpecService == Init /\ [][NextService]_vars /\ FairService

\* The server left running, with no requests, long enough for the slower
\* sensors to come due again.
NextSchedule ==
    \/ TickAsleep(MaxTimeLong)
    \/ \E t \in Threads : _polling_loop(t, SteadyVoltages)
    \/ start("c1")

SpecSchedule == Init /\ [][NextSchedule]_vars

\* The server left running on an installation whose reads all succeed at
\* once, with get_sensor and get_all_sensors requests coming in.
NextHealthy ==
    \/ TickPrompt(MaxTimeFull)
    \/ \E t \in Threads :
          \/ LoopWhile(t) \/ ShouldUpdate(t) \/ MarkRead(t)
          \/ AdcReadValue(t, SteadyVoltages)
          \/ UpdateAcquire(t) \/ UpdateWrite(t) \/ Wake(t)
    \/ start("c1")
    \/ \E sensor \in available_sensors : GetReadingAcquire("q1", sensor)
    \/ GetReadingBody("q1")
    \/ get_all_readings("q1") \/ Release("q1")

SpecHealthy == Init /\ [][NextHealthy]_vars

(* ------------------------------- claims -------------------------------- *)

\* What the cache holds for each sensor: its (value, timestamp), or nothing.
Stored ==
    [s \in available_sensors |->
        IF s \in DOMAIN _readings
        THEN <<heap[_readings[s]].value, heap[_readings[s]].timestamp>>
        ELSE <<>>]

\* The polling loops that run.
Live == {t \in Threads : thr[t].st = "alive"}

\* C1: once a stop() has returned, and until start() is called again, no
\* sensor's stored (value, timestamp) changes.
C1_NoWriteAfterStop == [][quiet => Stored' = Stored]_vars

\* C2: a start() called while the flag is set leaves the flag, the thread
\* handle, the threads, the cache and the attempt times as they were and
\* returns; no polling loop is launched by it.
C2_StartWhileRunningIsNoOp ==
    [][\A c \in Callers :
          /\ (callers[c].pc = "idle" /\ callers'[c].pc # "idle"
                /\ callers'[c].pc # "stop_test" /\ _running)
                => /\ callers'[c].pc = "start_return"
                   /\ UNCHANGED <<_running, _polling_thread, thr, _readings, heap,
                                  last_read, _lock, puts>>
          /\ (callers[c].pc = "start_return" /\ callers'[c] # callers[c])
                => /\ callers'[c] = IdleCaller
                   /\ UNCHANGED <<_running, _polling_thread, thr, _readings, heap,
                                  last_read, _lock, puts>>]_vars

\* C2's case: a start() found the service running, with its loop alive.
C2_Witness ==
    \E c \in Callers : callers[c].pc = "start_return" /\ _running /\ Live # {}

\* C3: at most one polling loop is alive at any time.
C3_AtMostOneLoop == Cardinality(Live) <= 1

\* C4: a get_reading for an identifier outside the registry is never
\* answered with None, the answer a sensor without a reading gets.
C4_UnknownSensorRejected ==
    \A q \in Clients :
        (clients[q].pc = "done" /\ clients[q].arg \notin available_sensors
            /\ clients[q].arg # "-")
            => clients[q].ret # "None"

\* The values the Sensor Source can produce for a sensor.
Producible(s) == {adc_read(s, volt) : volt \in Voltages}

\* C5: a read that fails ends the attempt without a write: the step leaves
\* every stored (value, timestamp) as it was, and whatever is stored for a
\* sensor later is a value its Sensor Source produced, stamped at its put,
\* never a substituted default.
C5_FailedReadSkipsWrite ==
    [][/\ \A t \in Threads :
             (thr[t].pc = "read" /\ thr'[t].pc # "read" /\ thr'[t].pc # "lock")
                => (thr'[t].st = "dead" /\ Stored' = Stored)
       /\ \A s \in available_sensors :
             Stored'[s] # Stored[s]
                => \E t \in Threads :
                      /\ thr[t].pc = "write" /\ Order[thr[t].i] = s
                      /\ thr[t].val \in Producible(s)
                      /\ Stored'[s] = <<thr[t].val, now>>]_vars

\* C5's case: the rpm read failed on an attempt made after rpm was stored,
\* and the earlier reading is still the one in the cache.
C5_Witness ==
    /\ \E t \in Threads : thr[t].exit = "raised"
    /\ Stored["rpm"] # <<>>
    /\ last_read["rpm"] > Stored["rpm"][2]

\* C6: no polling loop is ended by a Sensor Source read that fails.
C6_LoopSurvivesFailingSensor == \A t \in Threads : thr[t].exit # "raised"

\* C7: the reading get_reading returns carries stale = (t - T > M), with t
\* the clock at that query, T the reading's timestamp and M the sensor's
\* MAX_AGE; the query leaves T as it was.
C7_StaleAtQueryTime ==
    [][\A q \in Clients :
          (clients[q].pc = "gr" /\ clients'[q].pc = "done" /\ clients'[q].ret = "Reading")
             => LET s == clients[q].arg
                    o == clients'[q].res[s]
                IN  /\ o = _readings[s]
                    /\ heap'[o].timestamp = heap[o].timestamp
                    /\ heap'[o].stale = (now - heap[o].timestamp > MAX_AGE[s])]_vars

\* C7's case: a reading that was fresh when stored is returned stale, its age
\* at the query over MAX_AGE, with no write in between.
C7_Witness ==
    \E q \in Clients :
        /\ clients[q].pc = "done" /\ clients[q].ret = "Reading"
        /\ LET o == clients[q].res[clients[q].arg]
           IN  /\ heap[o].stale
               /\ clients[q].ct - heap[o].timestamp > MAX_AGE[clients[q].arg]
               /\ puts[clients[q].arg] = <<heap[o].value, heap[o].timestamp>>

\* C8: for a registered sensor no poll has written yet, get_reading has
\* returned None and get_all_readings has left the sensor out.
C8_AbsentUntilPolled ==
    \A q \in Clients :
        clients[q].pc = "done" =>
            /\ (clients[q].arg \in available_sensors /\ puts[clients[q].arg] = <<>>)
                  => (clients[q].ret = "None" /\ clients[q].res = NoRefs)
            /\ clients[q].ret = "Dict"
                  => \A s \in available_sensors :
                        puts[s] = <<>> => clients[q].res[s] = NoObj

\* C8's case: a snapshot taken when rpm was polled and battery was not yet.
C8_Witness ==
    \E q \in Clients :
        /\ clients[q].pc = "done" /\ clients[q].ret = "Dict"
        /\ clients[q].res["rpm"] # NoObj
        /\ clients[q].res["battery"] = NoObj
        /\ puts["battery"] = <<>>

\* C9: while a caller holds a reading it was handed, no field of that
\* reading changes.
C9_ReturnedReadingImmutable ==
    [][\A q \in Clients :
          (clients[q].pc = "done" /\ clients'[q].pc = "done")
             => \A s \in available_sensors :
                   clients[q].res[s] # NoObj
                      => heap'[clients[q].res[s]] = heap[clients[q].res[s]]]_vars

\* C10: every entry of the snapshot get_all_readings builds is the (value,
\* timestamp) pair of one put, the latest for that sensor: no put lands
\* between the entries, and none is seen half-way.
C10_SnapshotNotTorn ==
    \A q \in Clients :
        clients[q].pc = "ga" =>
            \A s \in available_sensors :
                clients[q].acc[s] # NoObj
                   => <<heap[clients[q].acc[s]].value,
                        heap[clients[q].acc[s]].timestamp>> = puts[s]

\* C10's case: a snapshot holds the rpm entry while the polling loop waits at
\* the lock with the next rpm value.
C10_Witness ==
    \E q \in Clients, t \in Threads :
        /\ clients[q].pc = "ga" /\ clients[q].acc["rpm"] # NoObj
        /\ thr[t].pc = "lock" /\ Order[thr[t].i] = "rpm"

\* C11: the map get_all_readings returns has exactly the sensors that have a
\* reading in the cache during the call as its keys, each entry is the cached
\* reading, and each carries stale = (t - timestamp > MAX_AGE) with t the one
\* clock value the call read at its start.
C11_SnapshotKeysAndStaleness ==
    [][\A q \in Clients :
          (clients[q].pc = "ga" /\ clients'[q].pc = "done")
             => /\ {s \in available_sensors : clients'[q].res[s] # NoObj} = DOMAIN _readings
                /\ \A s \in DOMAIN _readings :
                      /\ clients'[q].res[s] = _readings[s]
                      /\ heap'[_readings[s]].stale =
                            (clients[q].ct - heap[_readings[s]].timestamp > MAX_AGE[s])]_vars

\* C11's case: a snapshot with rpm in it and battery not, returned after the
\* clock moved on during the call: rpm is within MAX_AGE by the clock the call
\* began with, and is flagged so, and is past it by the clock at the return.
C11_Witness ==
    \E q \in Clients :
        /\ clients[q].pc = "done" /\ clients[q].ret = "Dict"
        /\ clients[q].res["rpm"] # NoObj /\ clients[q].res["battery"] = NoObj
        /\ ~heap[clients[q].res["rpm"]].stale
        /\ clients[q].ct - heap[clients[q].res["rpm"]].timestamp = MAX_AGE["rpm"]
        /\ now > clients[q].ct

\* A stop() call is under way.
Stopping(c) == callers[c].pc \in {"stop_test", "stop_join", "stop_wait"}

\* C12: a stop() that was called returns in the end, get_reading and
\* get_all_readings callers taking and releasing the store lock all the
\* while and every read returning; and once it has returned no polling loop
\* is alive.
C12_StopReturns ==
    /\ \A c \in {"c1"} : Stopping(c) ~> (callers[c].pc = "idle")
    /\ [](quiet => Live = {})

\* C12's case: stop() waits in join() for the loop it told to end while the
\* loop waits for the store lock, which a get_reading caller holds.
C12_Witness ==
    \E c \in Callers, t \in Threads, q \in Clients :
        /\ callers[c].pc = "stop_wait" /\ callers[c].tgt = t
        /\ thr[t].st = "alive" /\ thr[t].pc = "lock"
        /\ clients[q].pc = "gr" /\ _lock

\* C13: every step of a stop() made while the flag is clear and no polling
\* loop is alive leaves the flag, the cache, its readings and the attempt
\* times as they were, and the call never waits: the thread it joins, if
\* there is one, has ended already.
C13_StopWhileStoppedIsNoOp ==
    [][\A c \in Callers :
          (/\ ~_running /\ Live = {}
           /\ callers'[c] # callers[c]
           /\ (callers'[c].pc = "stop_test" \/ Stopping(c)))
             => /\ UNCHANGED <<_running, _readings, heap, last_read, puts>>
                /\ callers'[c].pc = "stop_wait" => thr[callers'[c].tgt].st = "dead"
                /\ callers[c].pc = "stop_wait" => callers'[c].pc = "idle"]_vars

\* C13's case: a stop() after a stop() that returned, about to join the
\* thread that ended on the first one, with readings in the cache.
C13_Witness ==
    \E c \in Callers :
        /\ quiet /\ callers[c].pc = "stop_join"
        /\ thr[_polling_thread].exit = "returned"
        /\ DOMAIN _readings # {}

\* C14: when a polling loop sets out on a read of a sensor, the time of the
\* attempt is recorded as the sensor's last attempt before the read is
\* issued, at least the sensor's interval after the attempt recorded before
\* it; and a read that fails leaves the record as it is.
C14_AttemptsSpacedByInterval ==
    [][\A t \in Threads :
          /\ (thr[t].pc # "read" /\ thr'[t].pc = "read")
                => LET sensor == Order[thr'[t].i]
                   IN  /\ last_read'[sensor] = thr[t].ct
                       /\ last_read'[sensor] - last_read[sensor] >= REFRESH_RATES[sensor]
          /\ (thr[t].pc = "read" /\ thr'[t].pc # "read")
                => last_read' = last_read]_vars

\* C14's case: the rpm read failed and ended the first loop; after stop()
\* and start() the second loop left rpm alone in its first pass and attempts
\* it one interval after the failed attempt; rpm was never stored.
C14_Witness ==
    \E t \in Threads, u \in Threads :
        /\ thr[t].exit = "raised"
        /\ thr[u].st = "alive" /\ thr[u].pc = "read" /\ Order[thr[u].i] = "rpm"
        /\ last_read["rpm"] = StartTime + REFRESH_RATES["rpm"]
        /\ "rpm" \notin DOMAIN _readings

\* The sensor with the shortest interval.
Fastest == CHOOSE s \in available_sensors : REFRESH_RATES[s] = MinRate

C16_QueriesArePureReads ==
    [][\A q \in Clients :
          clients'[q] # clients[q]
             => \A s \in DOMAIN _readings :
                   heap'[_readings[s]] = heap[_readings[s]]]_vars

C18_NoLockAcrossSensorRead ==
    \A t \in Threads :
        (thr[t].st = "alive" /\ thr[t].pc = "read" /\ _lock)
            => \/ \E q \in Clients : clients[q].pc \in {"gr", "ga"}
               \/ \E u \in Threads \ {t} : thr[u].st = "alive" /\ thr[u].pc = "write"

\* C18's case: a get_reading for rpm is inside its with block, rpm stored,
\* while the polling loop is inside a read.
C18_Witness ==
    \E t \in Threads, q \in Clients :
        /\ thr[t].st = "alive" /\ thr[t].pc = "read"
        /\ clients[q].pc = "gr" /\ clients[q].arg = "rpm" /\ _lock
        /\ "rpm" \in DOMAIN _readings

\* C19: at most one polling loop is inside a Sensor Source read at any time.
C19_OneSensorReadAtATime ==
    Cardinality({t \in Threads : thr[t].st = "alive" /\ thr[t].pc = "read"}) <= 1

\* C20: the keys of the cache are registered sensors, and a sensor that has
\* a reading in the cache has one after every step, stop() and start()
\* included.
C20_ReadingsOnlyReplaced ==
    /\ [](DOMAIN _readings \subseteq available_sensors)
    /\ [][DOMAIN _readings \subseteq DOMAIN _readings']_vars

\* C20's case: a stop() has returned, no loop is alive, and every sensor
\* still has its reading.
C20_Witness ==
    /\ quiet /\ Live = {}
    /\ DOMAIN _readings = available_sensors

\* C21: whenever no start() or stop() call is under way, the flag is set
\* exactly when a polling loop is alive.
C21_RunningFlagTellsTruth ==
    (\A c \in Callers : callers[c].pc = "idle") => (_running <=> Live # {})

\* C22: with the configured REFRESH_RATES and MAX_AGE, the loop running,
\* every read succeeding at once and the sleep returning on time, no reading
\* a query returns is flagged stale.
C22_NeverStaleWhileHealthy ==
    \A q \in Clients :
        clients[q].pc = "done" =>
            \A s \in available_sensors :
                clients[q].res[s] # NoObj => ~heap[clients[q].res[s]].stale

\* C22's case: a snapshot taken more than the largest MAX_AGE after the
\* first readings, every sensor in it, each refreshed since.
C22_Witness ==
    \E q \in Clients :
        /\ clients[q].pc = "done" /\ clients[q].ret = "Dict"
        /\ clients[q].ct - StartTime > Max({MAX_AGE[s] : s \in available_sensors})
        /\ \A s \in available_sensors :
              /\ clients[q].res[s] # NoObj
              /\ heap[clients[q].res[s]].timestamp > StartTime

====
